---- MODULE Spec2Model ----
(***************************************************************************)
(* kimimaro/utility.py: cross_sectional_area and moving_average.           *)
(*                                                                         *)
(* The voxel grid is modelled along one axis: every comparison the code    *)
(* makes on coordinates is an np.any over the axes, so a coordinate is one *)
(* integer, a bounding box is [start, stop) and a direction vector is its  *)
(* signed length.  A unit normal is then "+" or "-", and "nan" when the    *)
(* smoothed direction is zero (0/0 at line 161).                           *)
(*                                                                         *)
(* External collaborators (fastremap.renumber, scipy find_objects,         *)
(* Skeleton.paths, xs3d.cross_sectional_area) are modelled at the place    *)
(* where the code calls them.  xs3d is an arbitrary function of the mask,  *)
(* the vertex and the normal: its answers are chosen when first asked for  *)
(* and kept in `memo`.                                                     *)
(* Calls are made with in_place = False and fill_holes = False (the        *)
(* defaults, lines 49-50), so the caller's volume is never modified.       *)
(***************************************************************************)
EXTENDS Integers, Sequences, FiniteSets, TLC

VARIABLES
  all_labels,        \* the label volume handed to every call
  is_bool,           \* all_labels.dtype == bool
  anisotropy,        \* voxel spacing handed to every call
  skeletons,         \* the collection handed to every call
  pc,                \* "idle" | "skel" | "path" | "vert" | "done"
  repair_contacts,   \* parameter of the running call
  smoothing_window,  \* parameter of the running call
  remapping,         \* line 100 / 102
  all_slices,        \* line 104
  k,                 \* position of the loop of line 106
  p,                 \* position of the loop of line 151
  i,                 \* position of the loop of line 163
  roi_minpt,         \* roi.minpt after line 125
  shape,             \* line 149
  areas,             \* line 139 / 142
  contacts,          \* line 140 / 143
  normals,           \* lines 155-161
  error,             \* "none" or the exception that ended the call
  ncalls,            \* calls started so far
  log,               \* sampling calls of the running call, in order
  processed,         \* skeletons that reached line 177 in the running call
  pre,               \* skeletons as they were when the running call started
  prev,              \* the call before the running one
  memo,              \* arguments -> result the primitive has answered so far
  ma_pc, ma_in, ma_a, ma_n, ma_ret   \* one evaluation of moving_average, step by step

vars == << all_labels, is_bool, anisotropy, skeletons, pc,
           repair_contacts, smoothing_window, remapping, all_slices, k, p, i,
           roi_minpt, shape, areas, contacts, normals, error, ncalls, log,
           processed, pre, prev, memo, ma_pc, ma_in, ma_a, ma_n, ma_ret >>

world == << all_labels, is_bool, anisotropy >>
mavars == << ma_pc, ma_in, ma_a, ma_n, ma_ret >>
mainvars == << all_labels, is_bool, anisotropy, skeletons, pc, repair_contacts,
               smoothing_window, remapping, all_slices, k, p, i, roi_minpt, shape,
               areas, contacts, normals, error, ncalls, log, processed, pre, prev,
               memo >>

---------------------------------------------------------------------------
(* Bounds *)
VolLen == 4       \* voxels in the volume
MaxCalls == 2     \* calls of cross_sectional_area in one behaviour
MaxLen == 3       \* length of a sequence handed to moving_average alone

Range(s) == { s[j] : j \in 1..Len(s) }
Min(S) == CHOOSE x \in S : \A y \in S : x <= y
Max(S) == CHOOSE x \in S : \A y \in S : x >= y
Repeat(x, c) == [ j \in 1..c |-> x ]

---------------------------------------------------------------------------
(* moving_average, lines 192-205 *)

\* line 193
BadWindow_strict(n) == n < 0
BadWindow(n) == n <= 0

\* line 197, times two: mirror = (len(a) - (len(a) - n + 1)) / 2
mirror2(a, n) == Len(a) - (Len(a) - n + 1)

\* lines 198-200
extra_none(a, n) == 0
extra(a, n) == IF mirror2(a, n) % 2 # 0 THEN 1 ELSE 0

\* line 201: int() truncates toward zero
mirror(a, n) ==
  IF mirror2(a, n) >= 0 THEN mirror2(a, n) \div 2 ELSE -((-mirror2(a, n)) \div 2)

\* line 202
Pad(a, n) ==
  Repeat(a[1], mirror(a, n) + extra(a, n)) \o a \o Repeat(a[Len(a)], mirror(a, n))

RECURSIVE SumTo(_, _)
SumTo(s, j) == IF j = 0 THEN 0 ELSE s[j] + SumTo(s, j - 1)

\* line 203
Cumsum(s) == [ j \in 1..Len(s) |-> SumTo(s, j) ]

\* line 204: ret[n:] = ret[n:] - ret[:-n]
WindowSums(c, n) ==
  [ j \in 1..Len(c) |-> IF j > n /\ j - n >= 1 THEN c[j] - c[j - n] ELSE c[j] ]

\* line 205: ret[n - 1:] / n, an entry kept as the fraction num/den
DivideFrom(w, n) ==
  LET from == IF n >= 1 THEN n ELSE Max({Len(w) + n, 1})
  IN  [ j \in 1..(Len(w) - from + 1) |-> [num |-> w[j + from - 1], den |-> n] ]

\* line 196: return a
Identity(a) == [ j \in 1..Len(a) |-> [num |-> a[j], den |-> 1] ]

\* the value moving_average returns when it does not raise
moving_average(a, n) ==
  IF n = 1 THEN Identity(a) ELSE DivideFrom(WindowSums(Cumsum(Pad(a, n)), n), n)

---------------------------------------------------------------------------
(* moving_average evaluated alone, one step per source line *)

Values == {-1, 0, 2}
Inputs == UNION { [1..N -> Values] : N \in 1..MaxLen }

\* lines 193-196
MACheck ==
  /\ ma_pc = "check"
  /\ IF BadWindow(ma_n)
       THEN ma_pc' = "ValueError" /\ ma_ret' = ma_ret
       ELSE IF ma_n = 1
         THEN ma_pc' = "returned" /\ ma_ret' = Identity(ma_a)
         ELSE ma_pc' = "pad" /\ ma_ret' = ma_ret
  /\ UNCHANGED << ma_in, ma_a, ma_n >>
  /\ UNCHANGED mainvars

\* lines 197-202
MAPad ==
  /\ ma_pc = "pad"
  /\ ma_a' = Pad(ma_a, ma_n)
  /\ ma_pc' = "cumsum"
  /\ UNCHANGED << ma_in, ma_n, ma_ret >>
  /\ UNCHANGED mainvars

\* line 203
MACumsum ==
  /\ ma_pc = "cumsum"
  /\ ma_ret' = Cumsum(ma_a)
  /\ ma_pc' = "window"
  /\ UNCHANGED << ma_in, ma_a, ma_n >>
  /\ UNCHANGED mainvars

\* line 204
MAWindow ==
  /\ ma_pc = "window"
  /\ ma_ret' = WindowSums(ma_ret, ma_n)
  /\ ma_pc' = "divide"
  /\ UNCHANGED << ma_in, ma_a, ma_n >>
  /\ UNCHANGED mainvars

\* line 205
MAReturn ==
  /\ ma_pc = "divide"
  /\ ma_ret' = DivideFrom(ma_ret, ma_n)
  /\ ma_pc' = "returned"
  /\ UNCHANGED << ma_in, ma_a, ma_n >>
  /\ UNCHANGED mainvars

---------------------------------------------------------------------------
(* cross_sectional_area, lines 43-189 *)

\* lines 83-87
prop == [id |-> "cross_sectional_area", data_type |-> "float32", num_components |-> 1]

\* fastremap.renumber, line 102: 0 stays 0, the other labels present are
\* numbered from 1 in order of first appearance; absent labels get no key
renumber(vol) ==
  LET present == Range(vol) \ {0}
      first(l) == Min({ j \in 1..Len(vol) : vol[j] = l })
  IN  [ l \in present \cup {0} |->
          IF l = 0 THEN 0
          ELSE Cardinality({ m \in present : first(m) <= first(l) }) ]

\* lines 99-102
Remapping(vol, bool) == IF bool THEN [ l \in {0, 1} |-> l ] ELSE renumber(vol)

\* the volume find_objects is given at line 104
Renumbered(vol, bool) == [ j \in 1..Len(vol) |-> Remapping(vol, bool)[vol[j]] ]

\* "slices is None", line 117
NoSlice == [start |-> -1, stop |-> -1]

\* find_objects, lines 31-41: entry L (python index L - 1) bounds label L
find_objects(vol) ==
  [ L \in 1..Max(Range(vol) \cup {0}) |->
      LET at == { j \in 1..Len(vol) : vol[j] = L }
      IN  IF at = {} THEN NoSlice ELSE [start |-> Min(at) - 1, stop |-> Max(at)] ]

\* lines 107-110
Label(skel) == IF is_bool THEN 1 ELSE skel.id

\* line 115 raises KeyError, line 116 raises IndexError
LookupError(skel) ==
  IF Label(skel) \notin DOMAIN remapping THEN "KeyError line 115"
  ELSE IF remapping[Label(skel)] \notin DOMAIN all_slices THEN "IndexError line 116"
  ELSE "none"

\* lines 115-116
Slices(skel) == all_slices[remapping[Label(skel)]]

\* lines 112-122: the three "continue"
Skipped(skel) ==
  \/ Label(skel) = 0
  \/ /\ LookupError(skel) = "none"
     /\ \/ Slices(skel) = NoSlice
        \/ Slices(skel).stop - Slices(skel).start <= 1

\* lines 124-125: grow by one, clamp the lower corner
RoiMinpt(slices) == Max({ slices.start - 1, 0 })

\* lines 126-128, 149: numpy clips the upper end of the slice to the volume
CropShape(slices) == Min({ slices.stop + 1, Len(all_labels) }) - RoiMinpt(slices)

\* numpy round: half to even
Round(v, a) ==
  LET q == v \div a
      r == v % a
  IN  IF 2 * r < a THEN q
      ELSE IF 2 * r > a THEN q + 1
      ELSE IF q % 2 = 0 THEN q ELSE q + 1

\* lines 133-134
AllVerts(skel, minpt) ==
  [ j \in 1..Len(skel.vertices) |-> Round(skel.vertices[j], anisotropy) - minpt ]

\* line 136: a later vertex replaces an earlier one under the same key
mapping(all_verts, vert) == Max({ j \in 1..Len(all_verts) : all_verts[j] = vert })

\* lines 152-153; Skeleton.paths yields vertex rows, kept here by their index
Path(skel, q, minpt) ==
  [ j \in 1..Len(skel.paths[q]) |-> AllVerts(skel, minpt)[skel.paths[q][j]] ]

\* lines 155-156
Directions(path) ==
  LET d == [ j \in 1..(Len(path) - 1) |-> path[j + 1] - path[j] ]
  IN  Append(d, d[Len(d)])

\* lines 159-161
Unit(x) == IF x.num > 0 THEN "+" ELSE IF x.num < 0 THEN "-" ELSE "nan"

\* lines 155-161
Normals(path, n) ==
  LET m == moving_average(Directions(path), n)
  IN  [ j \in 1..Len(m) |-> Unit(m[j]) ]

\* line 164
OutOfCrop(vert, shp) == vert < 0 \/ vert > shp

\* line 170
NeedsSample_always(a, c, idx, repair) == TRUE
NeedsSample(a, c, idx, repair) == a[idx] = 0 \/ (repair /\ c[idx] > 0)

Zeros(n) == [ j \in 1..n |-> 0 ]

\* lines 138-143
StartAreas_kept(skel, repair) ==
  IF repair \/ skel.has_arrays THEN skel.cross_sectional_area
  ELSE Zeros(Len(skel.vertices))
StartAreas(skel, repair) ==
  IF repair THEN skel.cross_sectional_area ELSE Zeros(Len(skel.vertices))
StartContacts(skel, repair) ==
  IF repair THEN skel.cross_sectional_area_contacts ELSE Zeros(Len(skel.vertices))

\* lines 177-181
NeedsProp_always(skel) == TRUE
NeedsProp(skel) == \A j \in 1..Len(skel.extra_attributes) :
  skel.extra_attributes[j].id # "cross_sectional_area"

\* values the sampling primitive may return
Results == { [area |-> 0, contact |-> 0], [area |-> 2, contact |-> 0],
             [area |-> 2, contact |-> 1] }
Windows == {0, 1, 2}

NoCall == [valid |-> FALSE, repair |-> FALSE, window |-> 1, error |-> "none",
           skels |-> << >>, log |-> << >>]

Locals0 ==
  /\ p' = 0 /\ i' = 0 /\ roi_minpt' = 0 /\ shape' = 0
  /\ areas' = << >> /\ contacts' = << >> /\ normals' = << >>

\* lines 83-104
StartCall ==
  /\ pc \in {"idle", "done"}
  /\ ncalls < MaxCalls
  /\ \E rc \in BOOLEAN, sw \in Windows :
       /\ repair_contacts' = rc
       /\ smoothing_window' = sw
  /\ remapping' = Remapping(all_labels, is_bool)
  /\ all_slices' = find_objects(Renumbered(all_labels, is_bool))
  /\ k' = 1
  /\ Locals0
  /\ pc' = "skel"
  /\ error' = "none"
  /\ ncalls' = ncalls + 1
  /\ log' = << >>
  /\ processed' = {}
  /\ pre' = skeletons
  /\ prev' = IF pc = "done"
               THEN [valid |-> TRUE, repair |-> repair_contacts,
                     window |-> smoothing_window, error |-> error,
                     skels |-> skeletons, log |-> log]
               ELSE prev
  /\ UNCHANGED << world, skeletons, memo, mavars >>

Raise(e) ==
  /\ error' = e
  /\ pc' = "done"
  /\ Locals0

\* line 189
Return ==
  /\ pc = "skel"
  /\ k > Len(skeletons)
  /\ pc' = "done"
  /\ UNCHANGED << world, skeletons, repair_contacts, smoothing_window, remapping,
                  all_slices, k, p, i, roi_minpt, shape, areas, contacts, normals,
                  error, ncalls, log, processed, pre, prev, memo, mavars >>

\* lines 112-113, 117-118, 121-122
SkipSkeleton ==
  /\ pc = "skel"
  /\ k <= Len(skeletons)
  /\ Skipped(skeletons[k])
  /\ k' = k + 1
  /\ UNCHANGED << world, skeletons, pc, repair_contacts, smoothing_window, remapping,
                  all_slices, p, i, roi_minpt, shape, areas, contacts, normals,
                  error, ncalls, log, processed, pre, prev, memo, mavars >>

\* lines 115-116 raising, and lines 139-140 on a skeleton without the arrays
RaiseLookup ==
  /\ pc = "skel"
  /\ k <= Len(skeletons)
  /\ ~Skipped(skeletons[k])
  /\ \/ LookupError(skeletons[k]) # "none" /\ Raise(LookupError(skeletons[k]))
     \/ /\ LookupError(skeletons[k]) = "none"
        /\ repair_contacts /\ ~skeletons[k].has_arrays
        /\ Raise("AttributeError line 139")
  /\ UNCHANGED << world, skeletons, repair_contacts, smoothing_window, remapping,
                  all_slices, k, ncalls, log, processed, pre, prev, memo, mavars >>

\* lines 120-149
BeginSkeleton ==
  /\ pc = "skel"
  /\ k <= Len(skeletons)
  /\ ~Skipped(skeletons[k])
  /\ LookupError(skeletons[k]) = "none"
  /\ repair_contacts => skeletons[k].has_arrays
  /\ roi_minpt' = RoiMinpt(Slices(skeletons[k]))
  /\ shape' = CropShape(Slices(skeletons[k]))
  /\ areas' = StartAreas(skeletons[k], repair_contacts)
  /\ contacts' = StartContacts(skeletons[k], repair_contacts)
  /\ p' = 1
  /\ pc' = "path"
  /\ UNCHANGED << world, skeletons, repair_contacts, smoothing_window, remapping,
                  all_slices, k, i, normals, error, ncalls, log, processed, pre,
                  prev, memo, mavars >>

\* line 156 on a path without a segment, line 194 on a bad window
RaisePath ==
  /\ pc = "path"
  /\ p <= Len(skeletons[k].paths)
  /\ \/ Len(skeletons[k].paths[p]) < 2 /\ Raise("IndexError line 156")
     \/ /\ Len(skeletons[k].paths[p]) >= 2
        /\ BadWindow(smoothing_window)
        /\ Raise("ValueError line 194")
  /\ UNCHANGED << world, skeletons, repair_contacts, smoothing_window, remapping,
                  all_slices, k, ncalls, log, processed, pre, prev, memo, mavars >>

\* lines 151-161
BeginPath ==
  /\ pc = "path"
  /\ p <= Len(skeletons[k].paths)
  /\ Len(skeletons[k].paths[p]) >= 2
  /\ ~BadWindow(smoothing_window)
  /\ normals' = Normals(Path(skeletons[k], p, roi_minpt), smoothing_window)
  /\ i' = 1
  /\ pc' = "vert"
  /\ UNCHANGED << world, skeletons, repair_contacts, smoothing_window, remapping,
                  all_slices, k, p, roi_minpt, shape, areas, contacts, error,
                  ncalls, log, processed, pre, prev, memo, mavars >>

Vert == Path(skeletons[k], p, roi_minpt)[i]
Idx == mapping(AllVerts(skeletons[k], roi_minpt), Vert)

\* lines 164-165, and line 170 when false
SkipVertex ==
  /\ pc = "vert"
  /\ i <= Len(skeletons[k].paths[p])
  /\ \/ OutOfCrop(Vert, shape)
     \/ /\ ~OutOfCrop(Vert, shape)
        /\ i \in DOMAIN normals
        /\ ~NeedsSample(areas, contacts, Idx, repair_contacts)
  /\ i' = i + 1
  /\ UNCHANGED << world, skeletons, pc, repair_contacts, smoothing_window, remapping,
                  all_slices, k, p, roi_minpt, shape, areas, contacts, normals,
                  error, ncalls, log, processed, pre, prev, memo, mavars >>

\* lines 167-175; in repair mode areas and contacts are the skeleton's own arrays
SampleVertex ==
  /\ pc = "vert"
  /\ i <= Len(skeletons[k].paths[p])
  /\ ~OutOfCrop(Vert, shape)
  /\ IF i \notin DOMAIN normals
       THEN /\ Raise("IndexError line 168")
            /\ UNCHANGED << skeletons, k, log, memo >>
       ELSE /\ NeedsSample(areas, contacts, Idx, repair_contacts)
            /\ \E r \in Results : LET a == r.area  c == r.contact IN
                 /\ \A m \in memo :
                      (m.k = k /\ m.vert = Vert /\ m.normal = normals[i])
                        => (m.area = a /\ m.contact = c)
                 /\ memo' = memo \cup {[k |-> k, vert |-> Vert, normal |-> normals[i],
                                         area |-> a, contact |-> c]}
                 /\ areas' = [areas EXCEPT ![Idx] = a]
                 /\ contacts' = [contacts EXCEPT ![Idx] = c]
                 /\ log' = Append(log, [k |-> k, idx |-> Idx, vert |-> Vert,
                                        normal |-> normals[i], shape |-> shape,
                                        area |-> a, contact |-> c])
                 /\ skeletons' =
                      IF repair_contacts
                        THEN [skeletons EXCEPT
                               ![k].cross_sectional_area = [areas EXCEPT ![Idx] = a],
                               ![k].cross_sectional_area_contacts =
                                  [contacts EXCEPT ![Idx] = c]]
                        ELSE skeletons
            /\ i' = i + 1
            /\ UNCHANGED << pc, k, p, roi_minpt, shape, normals, error >>
  /\ UNCHANGED << world, repair_contacts, smoothing_window, remapping, all_slices,
                  ncalls, processed, pre, prev, mavars >>

\* the loop of line 163 is exhausted
EndPath ==
  /\ pc = "vert"
  /\ i > Len(skeletons[k].paths[p])
  /\ p' = p + 1
  /\ i' = 0
  /\ normals' = << >>
  /\ pc' = "path"
  /\ UNCHANGED << world, skeletons, repair_contacts, smoothing_window, remapping,
                  all_slices, k, roi_minpt, shape, areas, contacts, error, ncalls,
                  log, processed, pre, prev, memo, mavars >>

\* lines 177-187
EndSkeleton ==
  /\ pc = "path"
  /\ p > Len(skeletons[k].paths)
  /\ skeletons' = [skeletons EXCEPT
       ![k].extra_attributes =
          IF NeedsProp(skeletons[k]) THEN Append(@, prop) ELSE @,
       ![k].has_arrays = TRUE,
       ![k].cross_sectional_area = areas,
       ![k].cross_sectional_area_contacts = contacts]
  /\ processed' = processed \cup {k}
  /\ k' = k + 1
  /\ Locals0
  /\ pc' = "skel"
  /\ UNCHANGED << world, repair_contacts, smoothing_window, remapping, all_slices,
                  error, ncalls, log, pre, prev, memo, mavars >>

---------------------------------------------------------------------------
(* Inputs *)

\* skeleton ids: background, a label in no voxel, the object's label
Ids == {0, 3, 5}
ObjectLabel == Max(Ids)

radius == [id |-> "radius", data_type |-> "float32", num_components |-> 1]

\* volumes holding one object: a run of voxels, possibly empty
Volumes ==
  { [ j \in 1..VolLen |-> IF s < j /\ j <= e THEN ObjectLabel ELSE 0 ] :
      s \in 0..VolLen, e \in 0..VolLen }

AsBool(vol) == [ j \in 1..Len(vol) |-> IF vol[j] # 0 THEN 1 ELSE 0 ]

\* anisotropy, vertices, and the vertex indices along each path of Skeleton.paths()
Geom(a, v, ps) == [anisotropy |-> a, vertices |-> v, paths |-> ps]
Geometries ==
  { Geom(1, <<0, 1, 2>>, << <<1, 2, 3>> >>),
    Geom(1, <<1, 3, 2>>, << <<1, 2, 3>> >>),
    Geom(1, <<2, 3, 4>>, << <<1, 2>>, <<1, 3>> >>),
    Geom(2, <<2, 3, 4>>, << <<1, 2>>, <<1, 3>> >>),
    Geom(2, <<0, 1, 4>>, << <<1, 2, 3>> >>),
    Geom(1, <<1, 2>>, << <<1, 2>>, <<2>> >>),
    Geom(1, <<1, 2>>, << >>) }

InitialAttributes == << radius >>

Skel(id, verts, paths) ==
  [id |-> id, vertices |-> verts, paths |-> paths, extra_attributes |-> InitialAttributes,
   has_arrays |-> FALSE, cross_sectional_area |-> << >>,
   cross_sectional_area_contacts |-> << >>]

MAOff ==
  /\ ma_pc = "off" /\ ma_in = << >> /\ ma_a = << >> /\ ma_n = 1 /\ ma_ret = << >>

Init ==
  /\ \E vol \in Volumes, bool \in BOOLEAN, g \in Geometries, id \in Ids :
       /\ bool => id = ObjectLabel
       /\ is_bool = bool
       /\ all_labels = IF bool THEN AsBool(vol) ELSE vol
       /\ anisotropy = g.anisotropy
       /\ skeletons = << Skel(ObjectLabel, g.vertices, << >>),
                         Skel(id, g.vertices, g.paths) >>
  /\ pc = "idle"
  /\ repair_contacts = FALSE
  /\ smoothing_window = 1
  /\ remapping = << >>
  /\ all_slices = << >>
  /\ k = 0 /\ p = 0 /\ i = 0 /\ roi_minpt = 0 /\ shape = 0
  /\ areas = << >> /\ contacts = << >> /\ normals = << >>
  /\ error = "none"
  /\ ncalls = 0
  /\ log = << >>
  /\ processed = {}
  /\ pre = skeletons
  /\ prev = NoCall
  /\ memo = {}
  /\ MAOff

Next ==
  \/ StartCall
  \/ Return
  \/ SkipSkeleton
  \/ RaiseLookup
  \/ BeginSkeleton
  \/ RaisePath
  \/ BeginPath
  \/ SkipVertex
  \/ SampleVertex
  \/ EndPath
  \/ EndSkeleton

Spec == Init /\ [][Next]_vars

---------------------------------------------------------------------------
(* moving_average alone *)

MainOff ==
  /\ all_labels = << >> /\ is_bool = FALSE /\ anisotropy = 1 /\ skeletons = << >>
  /\ pc = "off" /\ repair_contacts = FALSE /\ smoothing_window = 1
  /\ remapping = << >> /\ all_slices = << >>
  /\ k = 0 /\ p = 0 /\ i = 0 /\ roi_minpt = 0 /\ shape = 0
  /\ areas = << >> /\ contacts = << >> /\ normals = << >>
  /\ error = "none" /\ ncalls = 0 /\ log = << >> /\ processed = {}
  /\ pre = << >> /\ prev = NoCall /\ memo = {}

MAInit ==
  /\ MainOff
  /\ ma_pc = "check"
  /\ ma_in \in Inputs
  /\ ma_a = ma_in
  /\ ma_n \in -1..(MaxLen + 1)
  /\ ma_ret = << >>

MANext ==
  \/ MACheck
  \/ MAPad
  \/ MACumsum
  \/ MAWindow
  \/ MAReturn

SpecMA == MAInit /\ [][MANext]_vars

---------------------------------------------------------------------------
(* Properties *)

Entries == { log[j] : j \in 1..Len(log) }
Arrays(sk) == << sk.has_arrays, sk.cross_sectional_area, sk.cross_sectional_area_contacts >>
CsaCount(sk) ==
  Cardinality({ j \in 1..Len(sk.extra_attributes) :
                  sk.extra_attributes[j].id = "cross_sectional_area" })
IsOther(d) == d.id # "cross_sectional_area"
Others(sk) == SelectSeq(sk.extra_attributes, IsOther)
InCall == pc \in {"skel", "path", "vert", "done"}
Absent(sk) == sk.id # 0 /\ sk.id \notin Range(all_labels)

\* crop-local vertices and crop shape of a skeleton that is not skipped
LocalVerts(sk) == AllVerts(sk, RoiMinpt(Slices(sk)))
OnSomePath(sk, v) == \E q \in 1..Len(sk.paths) : v \in Range(sk.paths[q])

\* C1 as stated: in repair mode only vertices whose contacts value was
\* non-zero before the call are passed to the sampling primitive, and every
\* vertex whose contacts value was zero keeps its area and contacts.
C1_RepairOnlyFlagged ==
  (InCall /\ repair_contacts) =>
    /\ \A e \in Entries : pre[e.k].cross_sectional_area_contacts[e.idx] # 0
    /\ \A j \in 1..Len(skeletons) :
         pre[j].has_arrays =>
           \A v \in 1..Len(pre[j].vertices) :
             pre[j].cross_sectional_area_contacts[v] = 0 =>
               /\ skeletons[j].cross_sectional_area[v] = pre[j].cross_sectional_area[v]
               /\ skeletons[j].cross_sectional_area_contacts[v] = 0

\* the two calls C2 is about: normal mode, same window, one after the other
TwoNormalCalls ==
  /\ pc = "done" /\ prev.valid
  /\ ~prev.repair /\ ~repair_contacts
  /\ prev.window = smoothing_window

\* C2 as amended: a second normal-mode call with the same options ends as
\* the first one did, leaves area and contacts identical, and makes the same
\* sampling calls again, starting from zeroed arrays.
C2_SecondCallRepeatsFirst ==
  TwoNormalCalls =>
    /\ error = prev.error
    /\ log = prev.log
    /\ \A j \in 1..Len(skeletons) : Arrays(skeletons[j]) = Arrays(prev.skels[j])

C2_Witness ==
  /\ TwoNormalCalls
  /\ \E e \in Entries :
       /\ prev.skels[e.k].has_arrays
       /\ prev.skels[e.k].cross_sectional_area[e.idx] # 0

\* C2 as stated: the arrays are identical and the second call makes no
\* sampling call for a vertex whose stored area was non-zero after the first.
C2_SecondCallSkipsMeasured ==
  TwoNormalCalls =>
    /\ \A j \in 1..Len(skeletons) : Arrays(skeletons[j]) = Arrays(prev.skels[j])
    /\ \A e \in Entries :
         ~(prev.skels[e.k].has_arrays /\ prev.skels[e.k].cross_sectional_area[e.idx] # 0)

\* C3 as stated: on a non-boolean volume a skeleton whose non-zero id is in
\* no voxel never ends the call with an error and is returned unchanged.
C3_AbsentLabelSkipped ==
  (pc = "done" /\ ~is_bool) =>
    \A j \in 1..Len(skeletons) :
      Absent(skeletons[j]) =>
        /\ ~(error # "none" /\ k = j)
        /\ skeletons[j] = pre[j]

C6_SampledInsideCrop ==
  \A e \in Entries : 0 <= e.vert /\ e.vert < e.shape

\* C7 as stated: after a normal-mode call, vertices of a processed skeleton
\* that share a crop-local coordinate, lie on a path and inside the crop hold
\* the same area and the same contacts.  (The representative index the claim
\* names is the first vertex at a coordinate; line 136 keeps the last.)
C7_ColocatedShareValues ==
  (pc = "done" /\ ~repair_contacts) =>
    \A j \in processed :
      \A u, v \in 1..Len(skeletons[j].vertices) :
        ( /\ LocalVerts(skeletons[j])[u] = LocalVerts(skeletons[j])[v]
          /\ OnSomePath(skeletons[j], u) /\ OnSomePath(skeletons[j], v)
          /\ 0 <= LocalVerts(skeletons[j])[u]
          /\ LocalVerts(skeletons[j])[u] < CropShape(Slices(skeletons[j])) )
        => /\ skeletons[j].cross_sectional_area[u] = skeletons[j].cross_sectional_area[v]
           /\ skeletons[j].cross_sectional_area_contacts[u]
                = skeletons[j].cross_sectional_area_contacts[v]

\* sampling calls of the running call at the position of log entry a, and
\* those among them whose result leaves the test of line 170 true
SamplesAt(a) == { b \in 1..Len(log) : log[b].k = log[a].k /\ log[b].vert = log[a].vert }
Retrigger(b) == log[b].area = 0 \/ (repair_contacts /\ log[b].contact > 0)

\* C8 as amended: within one call on one skeleton a voxel position is sampled
\* once, plus once more for every sample of it that returned area 0 or, in
\* repair mode, a non-zero contacts value.
C8_ResampledOnlyAfterRetrigger ==
  \A a \in 1..Len(log) :
    Cardinality(SamplesAt(a))
      <= 1 + Cardinality({ b \in SamplesAt(a) : Retrigger(b) })

C8_Witness ==
  \E a, b \in 1..Len(log) :
    /\ a < b
    /\ b \in SamplesAt(a)
    /\ log[a].area # 0
    /\ repair_contacts

\* C8 as stated: within one call on one skeleton the sampling primitive is
\* invoked at most once per rasterized voxel position.
C8_OneSamplePerPosition ==
  \A a, b \in 1..Len(log) :
    (log[a].k = log[b].k /\ log[a].vert = log[b].vert) => a = b

\* C9 as stated: a path with fewer than 2 vertices raises no error.
C9_ShortPathNoError ==
  (pc = "done" /\ k \in 1..Len(skeletons)) =>
    ((\E q \in 1..Len(skeletons[k].paths) : Len(skeletons[k].paths[q]) < 2)
       => error # "IndexError line 156")

\* C10: a skeleton's descriptor list never holds more than one
\* cross_sectional_area entry, holds exactly one once the skeleton was
\* processed in a call, and its other descriptors stay as they were.
C10_OneDescriptor ==
  \A j \in 1..Len(skeletons) :
    /\ CsaCount(skeletons[j]) <= 1
    /\ Others(skeletons[j]) = InitialAttributes
    /\ j \in processed => CsaCount(skeletons[j]) = 1

C10_Witness ==
  /\ pc = "done" /\ prev.valid
  /\ 2 \in processed
  /\ CsaCount(prev.skels[2]) = 1
  /\ CsaCount(skeletons[2]) = 1

====
